---- MODULE Spec2Model ----
(***************************************************************************)
(* A model of convert_openapi3_to_swagger2.py: the OpenAPI 3.0 to Swagger  *)
(* 2.0 document converter.  The converter is a chain of pure functions     *)
(* over untyped document trees; every function of the source is an         *)
(* operator of the same name, and each specification below draws one       *)
(* input tree (Init) and applies one converter to it (its action).         *)
(*                                                                         *)
(* Document trees.  A Python value is a pair <<kind, payload>>:            *)
(*   Str(s)   a str, s a TLA+ string (Len, SubSeq and \o act on it),       *)
(*   Bool(b), Num(n), None                                                 *)
(*   List(<<v1, ..., vn>>)                                                 *)
(*   Dict(<< <<key1, v1>>, ..., <<keyn, vn>> >>)  an insertion-ordered     *)
(*            mapping with distinct str keys (dict / OrderedDict).         *)
(* An exception that escapes a converter is the value Raise: every caller  *)
(* propagates it, as the source has no try/except.                         *)
(***************************************************************************)
EXTENDS Integers, Sequences, FiniteSets, TLC

VARIABLES pc, inp, out, order

vars == <<pc, inp, out, order>>

(***************************************************************************)
(* Values                                                                  *)
(***************************************************************************)
Str(s) == <<"str", s>>

Bool(b) == <<"bool", b>>

Num(n) == <<"int", n>>

None == <<"none", "">>

List(items) == <<"list", items>>

Dict(pairs) == <<"dict", pairs>>

EmptyDict == Dict(<<>>)

Raise == <<"raise", "AttributeError">>

IsDict(x) == x[1] = "dict"

IsList(x) == x[1] = "list"

IsStr(x) == x[1] = "str"

IsRaise(x) == x[1] = "raise"

\* Python truthiness: bool(x)
Truthy(x) ==
  CASE x[1] = "dict" -> Len(x[2]) > 0
    [] x[1] = "list" -> Len(x[2]) > 0
    [] x[1] = "str" -> Len(x[2]) > 0
    [] x[1] = "bool" -> x[2]
    [] x[1] = "int" -> x[2] # 0
    [] OTHER -> FALSE

(***************************************************************************)
(* Operations of an insertion-ordered mapping, on its sequence of pairs    *)
(***************************************************************************)
KeysOf(pairs) == [i \in 1..Len(pairs) |-> pairs[i][1]]

KeySet(pairs) == {pairs[i][1] : i \in 1..Len(pairs)}

HasKey(pairs, key) == \E i \in 1..Len(pairs) : pairs[i][1] = key

\* d.get(key, default)
GetOr(pairs, key, default) ==
  IF HasKey(pairs, key)
  THEN pairs[CHOOSE i \in 1..Len(pairs) : pairs[i][1] = key][2]
  ELSE default

\* d.get(key)
Get(pairs, key) == GetOr(pairs, key, None)

\* d[key] = value: an existing key keeps its position, a new key goes last
Put(pairs, key, value) ==
  IF HasKey(pairs, key)
  THEN [i \in 1..Len(pairs) |->
          IF pairs[i][1] = key THEN <<key, value>> ELSE pairs[i]]
  ELSE Append(pairs, <<key, value>>)

\* if cond: d[key] = value
PutIf(cond, pairs, key, value) == IF cond THEN Put(pairs, key, value) ELSE pairs

\* d.pop(key, None)
Pop(pairs, key) == SelectSeq(pairs, LAMBDA p : p[1] # key)

\* d.setdefault(key, value)
SetDefault(pairs, key, value) ==
  IF HasKey(pairs, key) THEN pairs ELSE Append(pairs, <<key, value>>)

\* d.update(other)
RECURSIVE Update(_, _)
Update(pairs, other) ==
  IF other = <<>> THEN pairs
  ELSE Update(Put(pairs, other[1][1], other[1][2]), Tail(other))

(***************************************************************************)
(* str operations                                                          *)
(***************************************************************************)
\* s.startswith(p)
StartsWith(s, p) == Len(s) >= Len(p) /\ SubSeq(s, 1, Len(p)) = p

\* s[n:]
DropFirst(s, n) == SubSeq(s, n + 1, Len(s))

\* s.find(old) + 1: the first position at which old occurs in s, 0 when none
Find(s, old) ==
  LET hits == {i \in 1..(Len(s) - Len(old) + 1) : SubSeq(s, i, i + Len(old) - 1) = old}
  IN IF hits = {} THEN 0 ELSE CHOOSE i \in hits : \A j \in hits : i <= j

\* s.replace(old, new) for a non-empty old: every non-overlapping occurrence,
\* scanning from the left
RECURSIVE Replace(_, _, _)
Replace(s, old, new) ==
  LET i == Find(s, old)
  IN IF i = 0 THEN s
     ELSE SubSeq(s, 1, i - 1) \o new \o Replace(DropFirst(s, i + Len(old) - 1), old, new)

\* key.startswith("x-")
IsExt(key) == StartsWith(key, "x-")

(***************************************************************************)
(* convert_ref                                                             *)
(***************************************************************************)
\* The prefixes convert_ref tests, in the order it tests them, each with its
\* replacement
RefTable ==
  << <<"#/components/schemas/", "#/definitions/">>,
     <<"#/components/parameters/", "#/parameters/">>,
     <<"#/components/responses/", "#/responses/">>,
     <<"#/components/requestBodies/", "#/x-requestBodies/">>,
     <<"#/components/securitySchemes/", "#/securityDefinitions/">> >>

RECURSIVE convert_ref_from(_, _)
convert_ref_from(ref, i) ==
  IF i > Len(RefTable) THEN ref
  ELSE IF StartsWith(ref, RefTable[i][1])
       THEN Replace(ref, RefTable[i][1], RefTable[i][2])
       ELSE convert_ref_from(ref, i + 1)

\* convert_ref(ref) for a str ref
convert_ref(ref) == convert_ref_from(ref, 1)

(***************************************************************************)
(* Reference strings                                                       *)
(***************************************************************************)
MaxRefParts == 2

RefHeads ==
  { "#/components/schemas/", "#/components/parameters/",
    "#/components/responses/", "#/components/requestBodies/",
    "#/components/securitySchemes/", "#/components/examples/",
    "#/components/schemas", "#/definitions/", "other.yaml#/components/schemas/",
    "" }

RefParts == { "Widget", "a/b", "#/components/schemas/", "#/components/responses/" }

RECURSIVE RefTails(_)
RefTails(n) ==
  IF n = 0 THEN {""}
  ELSE RefTails(n - 1) \cup {t \o p : t \in RefTails(n - 1), p \in RefParts}

RefInputs == {h \o t : h \in RefHeads, t \in RefTails(MaxRefParts)}

InitRef ==
  /\ pc = "ref"
  /\ inp \in {Str(r) : r \in RefInputs}
  /\ out = None
  /\ order = <<>>

RunConvertRef ==
  /\ pc = "ref"
  /\ pc' = "done_ref"
  /\ out' = Str(convert_ref(inp[2]))
  /\ UNCHANGED <<inp, order>>

SpecRef == InitRef /\ [][RunConvertRef]_vars

\* The first prefix of RefTable that ref starts with, 0 when there is none
RefPrefixIndex(ref) ==
  IF \E i \in 1..Len(RefTable) : StartsWith(ref, RefTable[i][1])
  THEN CHOOSE i \in 1..Len(RefTable) :
         /\ StartsWith(ref, RefTable[i][1])
         /\ \A j \in 1..(i - 1) : ~StartsWith(ref, RefTable[j][1])
  ELSE 0

\* ref with its leading container segment alone replaced per RefTable
LeadingSegmentReplaced(ref) ==
  LET i == RefPrefixIndex(ref)
  IN IF i = 0 THEN ref
     ELSE RefTable[i][2] \o DropFirst(ref, Len(RefTable[i][1]))

\* C6: for every reference string that starts with one of the five recognized
\* prefixes, convert_ref returns the string with only that leading container
\* segment replaced by the table target and the remainder unchanged; every
\* other string is returned as it is.
C6_OnlyLeadingSegmentRewritten ==
  pc = "done_ref" => out = Str(LeadingSegmentReplaced(inp[2]))

(***************************************************************************)
(* convert_schema                                                          *)
(***************************************************************************)
\* A variant that leaves the composition key as it is
CompositionKeyKept(key) == key

\* f"x-{key}" for the composition keys allOf, anyOf, oneOf, and "x-not"
CompositionKey(key) == IF key = "not" THEN "x-not" ELSE "x-" \o key

\* The entry a `nullable` key leaves in the converted mapping
NullableEntry(converted, value) ==
  IF Truthy(value) THEN Put(converted, "x-nullable", Bool(TRUE)) ELSE converted

\* The keys whose value is copied under a fixed output key, not transformed
VerbatimTarget(key) ==
  CASE key = "deprecated" -> "x-deprecated"
    [] key = "discriminator" -> "x-discriminator"
    [] key = "example" -> "example"
    [] key = "examples" -> "x-examples"
    [] key = "xml" -> "xml"

\* converted[key] = value, where value may be an escaping exception
PutOrRaise(converted, key, value) ==
  IF IsRaise(value) THEN Raise ELSE Dict(Put(converted, key, value))

RECURSIVE convert_schema(_)
RECURSIVE convert_schema_list(_)
RECURSIVE convert_schema_values(_, _)
RECURSIVE convert_schema_items(_, _)

\* [convert_schema(item) for item in schema]
convert_schema_list(items) ==
  IF items = <<>> THEN List(<<>>)
  ELSE LET Cons(first, rest) ==
             IF IsRaise(first) \/ IsRaise(rest) THEN Raise
             ELSE List(<<first>> \o rest[2])
       IN Cons(convert_schema(Head(items)), convert_schema_list(Tail(items)))

\* The loops over value.items() of `properties` and `patternProperties`:
\* props accumulates the converted entries
convert_schema_values(props, pairs) ==
  IF pairs = <<>> THEN Dict(props)
  ELSE LET Store(value) ==
             IF IsRaise(value) THEN Raise
             ELSE convert_schema_values(Put(props, pairs[1][1], value), Tail(pairs))
       IN Store(convert_schema(pairs[1][2]))

\* One iteration of the loop over schema.items()
convert_schema_key(converted, key, value) ==
  CASE key = "$ref" ->
         IF IsStr(value) THEN Dict(Put(converted, key, Str(convert_ref(value[2]))))
         ELSE Raise
    [] key = "nullable" -> Dict(NullableEntry(converted, value))
    [] key \in {"deprecated", "discriminator", "example", "examples", "xml"} ->
         Dict(Put(converted, VerbatimTarget(key), value))
    [] key \in {"allOf", "anyOf", "oneOf", "not"} ->
         PutOrRaise(converted, CompositionKey(key), convert_schema(value))
    [] key \in {"properties", "patternProperties"} ->
         IF IsDict(value)
         THEN PutOrRaise(converted, key, convert_schema_values(<<>>, value[2]))
         ELSE Raise
    [] OTHER -> PutOrRaise(converted, key, convert_schema(value))

convert_schema_items(converted, pairs) ==
  IF pairs = <<>> THEN Dict(converted)
  ELSE LET Continue(next) ==
             IF IsRaise(next) THEN Raise ELSE convert_schema_items(next[2], Tail(pairs))
       IN Continue(convert_schema_key(converted, pairs[1][1], pairs[1][2]))

convert_schema(schema) ==
  IF IsList(schema) THEN convert_schema_list(schema[2])
  ELSE IF ~IsDict(schema) THEN schema
  ELSE convert_schema_items(<<>>, schema[2])

(***************************************************************************)
(* Schema trees                                                            *)
(***************************************************************************)
MaxDepth == 2

SchemaKeys ==
  { "$ref", "nullable", "deprecated", "discriminator", "example", "examples",
    "allOf", "anyOf", "oneOf", "not", "items", "additionalProperties",
    "properties", "patternProperties", "xml", "type", "title", "x-foo" }

SchemaLeaves ==
  { Str("string"), Str("#/components/schemas/Pet"), Bool(TRUE), Bool(FALSE),
    Num(1) }

RECURSIVE SchemaTrees(_)
SchemaTrees(d) ==
  IF d = 0 THEN SchemaLeaves
  ELSE LET sub == SchemaTrees(d - 1)
       IN sub \cup {Dict(<< <<key, v>> >>) : key \in SchemaKeys, v \in sub}
              \cup {List(<<v>>) : v \in sub}

PairValues == { Bool(TRUE), Bool(FALSE), Str("string") }

\* Mappings of two keys, for the rules that write the same output key
SchemaPairs ==
  { Dict(<< <<k1, v1>>, <<k2, v2>> >>) :
      k1 \in SchemaKeys \cup {"x-nullable", "x-deprecated"},
      k2 \in {"nullable", "deprecated", "x-nullable", "x-deprecated", "not", "type"},
      v1 \in PairValues, v2 \in PairValues }

SchemaInputs ==
  SchemaTrees(MaxDepth) \cup {s \in SchemaPairs : s[2][1][1] # s[2][2][1]}

InitSchema ==
  /\ pc = "schema"
  /\ inp \in SchemaInputs
  /\ out = None
  /\ order = <<>>

RunConvertSchema ==
  /\ pc = "schema"
  /\ pc' = "done_schema"
  /\ out' = convert_schema(inp)
  /\ UNCHANGED <<inp, order>>

SpecSchema == InitSchema /\ [][RunConvertSchema]_vars

LegacyKeys ==
  {"nullable", "deprecated", "discriminator", "allOf", "anyOf", "oneOf", "not"}

\* No mapping of the tree, at any depth, has a key of LegacyKeys
RECURSIVE NoLegacyKeyAnywhere(_)
NoLegacyKeyAnywhere(x) ==
  CASE IsDict(x) ->
         \A i \in 1..Len(x[2]) :
           x[2][i][1] \notin LegacyKeys /\ NoLegacyKeyAnywhere(x[2][i][2])
    [] IsList(x) -> \A i \in 1..Len(x[2]) : NoLegacyKeyAnywhere(x[2][i])
    [] OTHER -> TRUE

\* The output keys whose value convert_schema may have copied verbatim
VerbatimOutputKeys == {"example", "x-examples", "x-deprecated", "x-discriminator", "xml"}

\* No schema node of the tree has a key of LegacyKeys.  The schema nodes are the
\* root and what is reached through transformed positions: the elements of a
\* list, the values of `properties` and `patternProperties` (whose keys are
\* property names), and the value of any key that is not copied verbatim.
RECURSIVE NoLegacyKeyAtSchemaNodes(_)
NoLegacyKeyAtSchemaNodes(x) ==
  CASE IsDict(x) ->
         \A i \in 1..Len(x[2]) :
           LET key == x[2][i][1]
               value == x[2][i][2]
           IN /\ key \notin LegacyKeys
              /\ CASE key \in VerbatimOutputKeys -> TRUE
                   [] key \in {"properties", "patternProperties"} ->
                        \A j \in 1..Len(value[2]) :
                          NoLegacyKeyAtSchemaNodes(value[2][j][2])
                   [] OTHER -> NoLegacyKeyAtSchemaNodes(value)
    [] IsList(x) -> \A i \in 1..Len(x[2]) : NoLegacyKeyAtSchemaNodes(x[2][i])
    [] OTHER -> TRUE

\* Every legacy key of the root mapping left its x- form in the result, except
\* a false `nullable`, which left nothing
RootKeysRenamed(schema, converted) ==
  \A key \in KeySet(schema[2]) \cap LegacyKeys :
    IF key = "nullable"
    THEN IF Truthy(Get(schema[2], key))
         THEN HasKey(converted[2], "x-nullable")
         ELSE HasKey(converted[2], "x-nullable") => HasKey(schema[2], "x-nullable")
    ELSE HasKey(converted[2], "x-" \o key)

\* C3 as stated: the result of convert_schema has, at no depth, a mapping key
\* equal to nullable, deprecated, discriminator, allOf, anyOf, oneOf or not.
C3_NoLegacyKeyAtAnyDepth ==
  (pc = "done_schema" /\ ~IsRaise(out)) => NoLegacyKeyAnywhere(out)

\* C3 amended: no schema node of the result of convert_schema (the root and
\* every node reached through a transformed position) has one of those keys,
\* and each such key of the root is renamed to its x- form, a false nullable
\* being dropped; property names and verbatim-copied values are kept as given.
C3_NoLegacyKeyAtSchemaNodes ==
  (pc = "done_schema" /\ ~IsRaise(out)) =>
    /\ NoLegacyKeyAtSchemaNodes(out)
    /\ IsDict(inp) => RootKeysRenamed(inp, out)

\* A composition key whose element carries nullable: both renamed
C3_Witness ==
  /\ pc = "done_schema"
  /\ inp = Dict(<< <<"not", Dict(<< <<"nullable", Bool(TRUE)>> >>)>> >>)
  /\ out = Dict(<< <<"x-not", Dict(<< <<"x-nullable", Bool(TRUE)>> >>)>> >>)

\* A schema field of unexpected shape: `properties` or `patternProperties`
\* that is no mapping, `$ref` that is no string
Malformed(schema, key) ==
  /\ HasKey(schema[2], key)
  /\ IF key = "$ref" THEN ~IsStr(Get(schema[2], key)) ELSE ~IsDict(Get(schema[2], key))

\* C5: a schema, or a schema field such as properties, patternProperties or
\* $ref, of unexpected shape does not make convert_schema fail: the conversion
\* completes and the unexpected value is passed through unchanged under its key.
C5_MalformedShapePassesThrough ==
  pc = "done_schema" =>
    /\ ~IsRaise(out)
    /\ IsDict(inp) =>
         \A key \in {"properties", "patternProperties", "$ref"} :
           Malformed(inp, key) => Get(out[2], key) = Get(inp[2], key)

(***************************************************************************)
(* schema_to_parameter_fields                                              *)
(***************************************************************************)
\* PARAMETER_PRIMITIVE_FIELDS as written.  It is a Python set: the order in
\* which `for field in PARAMETER_PRIMITIVE_FIELDS` visits it depends on the
\* interpreter's string hashing, so the visiting order is the variable
\* `order`, chosen when the module is loaded.
PARAMETER_PRIMITIVE_FIELDS ==
  << "type", "format", "default", "maximum", "exclusiveMaximum", "minimum",
     "exclusiveMinimum", "maxLength", "minLength", "pattern", "maxItems",
     "minItems", "uniqueItems", "multipleOf", "enum", "collectionFormat",
     "x-nullable", "x-deprecated", "x-example", "x-examples" >>

Reversed(seq) == [i \in 1..Len(seq) |-> seq[Len(seq) + 1 - i]]

FieldOrders == {PARAMETER_PRIMITIVE_FIELDS, Reversed(PARAMETER_PRIMITIVE_FIELDS)}

\* for key in source: if key.startswith("x-"): target[key] = source[key]
RECURSIVE CopyExtensions(_, _)
CopyExtensions(target, source) ==
  IF source = <<>> THEN target
  ELSE CopyExtensions(
         IF IsExt(source[1][1]) THEN Put(target, source[1][1], source[1][2])
         ELSE target,
         Tail(source))

\* for field in fields: if field in schema: result[field] = schema[field]
\* (the fields are distinct and none is in result yet: each goes last)
CopyFields(result, schema, fields) ==
  LET present == SelectSeq(fields, LAMBDA field : HasKey(schema, field))
  IN result \o [i \in 1..Len(present) |-> <<present[i], Get(schema, present[i])>>]

\* for key, value in schema.items():
\*     if key.startswith("x-") and key not in result: result[key] = value
RECURSIVE CopyNewExtensions(_, _)
CopyNewExtensions(result, pairs) ==
  IF pairs = <<>> THEN result
  ELSE CopyNewExtensions(
         IF IsExt(pairs[1][1]) /\ ~HasKey(result, pairs[1][1])
         THEN Put(result, pairs[1][1], pairs[1][2])
         ELSE result,
         Tail(pairs))

\* A variant that flattens every key of the schema, allow-listed or not
FlattenEveryKey(schema) == schema

\* schema.get("type") == "array" and isinstance(schema.get("items"), dict)
HasArrayItems(schema) ==
  Get(schema[2], "type") = Str("array") /\ IsDict(Get(schema[2], "items"))

RECURSIVE schema_to_parameter_fields(_)
schema_to_parameter_fields(schema) ==
  IF ~IsDict(schema) THEN Raise
  ELSE LET nested ==
             IF HasArrayItems(schema)
             THEN << <<"items", schema_to_parameter_fields(Get(schema[2], "items"))>> >>
             ELSE <<>>
       IN Dict(CopyNewExtensions(CopyFields(nested, schema[2], order), schema[2]))

(***************************************************************************)
(* convert_parameter                                                       *)
(***************************************************************************)
\* for key in ("name", "in", "description", "required", "deprecated",
\*             "allowEmptyValue"): the copied fields, deprecated renamed
RECURSIVE CopyParameterFields(_, _, _)
CopyParameterFields(new_param, parameter, keys) ==
  IF keys = <<>> THEN new_param
  ELSE CopyParameterFields(
         IF HasKey(parameter, keys[1])
         THEN Put(new_param,
                  IF keys[1] = "deprecated" THEN "x-deprecated" ELSE keys[1],
                  Get(parameter, keys[1]))
         ELSE new_param,
         parameter, Tail(keys))

\* A variant that maps style=form to "csv" whatever explode is
StyleFormatIgnoringExplode(parameter) ==
  CASE Get(parameter, "style") = Str("form") -> "csv"
    [] Get(parameter, "style") = Str("spaceDelimited") -> "ssv"
    [] Get(parameter, "style") = Str("pipeDelimited") -> "pipes"
    [] OTHER -> ""

\* The collectionFormat the style/explode tests assign, "" when none does
StyleFormat(parameter) ==
  CASE Get(parameter, "style") = Str("form") /\ Truthy(Get(parameter, "explode")) -> "multi"
    [] Get(parameter, "style") = Str("form") /\ ~Truthy(Get(parameter, "explode")) -> "csv"
    [] Get(parameter, "style") = Str("spaceDelimited") -> "ssv"
    [] Get(parameter, "style") = Str("pipeDelimited") -> "pipes"
    [] OTHER -> ""

\* The branch for parameter.get("in") == "body"
convert_body_parameter(new_param, parameter) ==
  LET Store(schema) ==
        IF IsRaise(schema) THEN Raise
        ELSE Dict(CopyExtensions(PutIf(Truthy(schema), new_param, "schema", schema),
                                 parameter))
  IN Store(convert_schema(GetOr(parameter, "schema", EmptyDict)))

\* The fields merged from a truthy schema: the flattened fields, then x-example
\* from the schema's example when no x-example is set
MergeSchemaFields(new_param, converted_schema, fields) ==
  LET merged == Update(new_param, fields[2])
  IN IF HasKey(converted_schema[2], "example") /\ ~HasKey(merged, "x-example")
     THEN Put(merged, "x-example", Get(converted_schema[2], "example"))
     ELSE merged

\* schema_to_parameter_fields(converted_schema), where converted_schema may be
\* an escaping exception
FlattenConverted(converted_schema) ==
  IF IsRaise(converted_schema) THEN Raise
  ELSE schema_to_parameter_fields(converted_schema)

\* The body of `if schema:` in convert_parameter
SchemaFields(new_param, converted_schema) ==
  LET Merge(fields) ==
        IF IsRaise(fields) THEN Raise
        ELSE Dict(MergeSchemaFields(new_param, converted_schema, fields))
  IN Merge(FlattenConverted(converted_schema))

\* The branch for every other location
convert_inline_parameter(new_param, parameter) ==
  LET schema == Get(parameter, "schema")
      format == StyleFormat(parameter)
      Finish(with_schema) ==
        IF IsRaise(with_schema) THEN Raise
        ELSE Dict(CopyExtensions(
                    PutIf(format # "", with_schema[2], "collectionFormat", Str(format)),
                    parameter))
  IN Finish(IF Truthy(schema) THEN SchemaFields(new_param, convert_schema(schema))
            ELSE Dict(new_param))

convert_parameter(parameter) ==
  IF ~IsDict(parameter) THEN Raise
  ELSE LET new_param ==
             CopyParameterFields(<<>>, parameter[2],
               <<"name", "in", "description", "required", "deprecated", "allowEmptyValue">>)
       IN IF Get(parameter[2], "in") = Str("body")
          THEN convert_body_parameter(new_param, parameter[2])
          ELSE convert_inline_parameter(new_param, parameter[2])

(***************************************************************************)
(* Parameters                                                              *)
(***************************************************************************)
MaxItemsDepth == 2

\* A field that is not given
Absent == <<"absent", "">>

Field(key, value) == IF value = Absent THEN <<>> ELSE << <<key, value>> >>

\* type: array schemas nested through items
RECURSIVE ArraySchemas(_)
ArraySchemas(d) ==
  IF d = 0
  THEN { Dict(<< <<"type", Str("string")>>, <<"title", Str("Tag")>> >>) }
  ELSE ArraySchemas(d - 1) \cup
       { Dict(<< <<"type", Str("array")>>, <<"items", s>> >> \o Field("collectionFormat", f)) :
           s \in ArraySchemas(d - 1), f \in {Absent, Str("tsv")} }

ParamSchemas ==
  ArraySchemas(MaxItemsDepth) \cup
  { Absent, EmptyDict,
    Dict(<< <<"type", Str("integer")>>, <<"maximum", Num(100)>> >>),
    Dict(<< <<"type", Str("array")>>, <<"items", List(<<Str("string")>>)>> >>),
    Dict(<< <<"type", Str("string")>>, <<"example", Str("e")>>, <<"x-custom", Num(1)>> >>),
    Dict(<< <<"nullable", Bool(TRUE)>>, <<"x-example", Str("s")>>, <<"type", Str("string")>> >>),
    Dict(<< <<"deprecated", Bool(FALSE)>>, <<"enum", List(<<Str("a"), Str("b")>>)>> >>),
    Dict(<< <<"$ref", Str("#/components/schemas/Pet")>> >>) }

ParamExtensions ==
  { <<>>,
    << <<"x-example", Str("p")>> >>,
    << <<"x-nullable", Bool(FALSE)>> >>,
    << <<"x-custom", Num(2)>>, <<"x-deprecated", Bool(FALSE)>> >> }

ParamInputs ==
  { Dict(<< <<"name", Str("limit")>>, <<"in", Str(loc)>> >>
         \o Field("deprecated", dep) \o Field("style", style)
         \o Field("explode", explode) \o Field("schema", schema) \o ext) :
      loc \in {"query", "body"},
      dep \in {Absent, Bool(TRUE)},
      style \in {Absent, Str("form"), Str("spaceDelimited"), Str("pipeDelimited"), Str("simple")},
      explode \in {Absent, Bool(TRUE), Bool(FALSE)},
      schema \in ParamSchemas,
      ext \in ParamExtensions }

InitParameter ==
  /\ pc = "parameter"
  /\ inp \in ParamInputs
  /\ out = None
  /\ order \in FieldOrders

RunConvertParameter ==
  /\ pc = "parameter"
  /\ pc' = "done_parameter"
  /\ out' = convert_parameter(inp)
  /\ UNCHANGED <<inp, order>>

SpecParameter == InitParameter /\ [][RunConvertParameter]_vars

\* The style table of the specification: the collectionFormat of a style and
\* explode, "" for none
TableFormat(style, explode) ==
  CASE style = Str("form") /\ explode = Bool(TRUE) -> "multi"
    [] style = Str("form") /\ explode \in {Bool(FALSE), None} -> "csv"
    [] style = Str("spaceDelimited") -> "ssv"
    [] style = Str("pipeDelimited") -> "pipes"
    [] OTHER -> ""

\* The parameter's collectionFormat is the table's, absent when it has none
FormatIsTable(parameter, result) ==
  LET format == TableFormat(Get(parameter[2], "style"), Get(parameter[2], "explode"))
  IN IF format = "" THEN ~HasKey(result[2], "collectionFormat")
     ELSE Get(result[2], "collectionFormat") = Str(format)

\* C4 as stated: the output collectionFormat of convert_parameter is determined
\* by style/explode alone: form with explode gives multi, form without gives
\* csv, spaceDelimited ssv, pipeDelimited pipes, and with any other or no style
\* the output has no collectionFormat key.
C4_FormatByStyleAlone ==
  (pc = "done_parameter" /\ ~IsRaise(out)) => FormatIsTable(inp, out)

\* C4 amended: for a parameter whose `in` is not "body", a style of form,
\* spaceDelimited or pipeDelimited gives the table's collectionFormat; with any
\* other or no style the output has a collectionFormat exactly when the
\* parameter's non-empty schema carries one, and then with the schema's value.
\* A parameter in "body" gets no collectionFormat whatever its style.
C4_FormatByStyleOrSchema ==
  (pc = "done_parameter" /\ ~IsRaise(out)) =>
    LET schema == Get(inp[2], "schema")
        format == TableFormat(Get(inp[2], "style"), Get(inp[2], "explode"))
    IN IF Get(inp[2], "in") = Str("body") THEN ~HasKey(out[2], "collectionFormat")
       ELSE IF format # "" THEN Get(out[2], "collectionFormat") = Str(format)
       ELSE IF Truthy(schema) /\ HasKey(schema[2], "collectionFormat")
            THEN Get(out[2], "collectionFormat") = Get(schema[2], "collectionFormat")
            ELSE ~HasKey(out[2], "collectionFormat")

\* style=form with explode overrides the collectionFormat the schema carries
C4_Witness ==
  /\ pc = "done_parameter"
  /\ Get(inp[2], "in") = Str("query")
  /\ Get(inp[2], "style") = Str("form")
  /\ Get(inp[2], "explode") = Bool(TRUE)
  /\ Get(Get(inp[2], "schema")[2], "collectionFormat") = Str("tsv")
  /\ Get(out[2], "collectionFormat") = Str("multi")

AllowList == {PARAMETER_PRIMITIVE_FIELDS[i] : i \in 1..Len(PARAMETER_PRIMITIVE_FIELDS)}

CopiedParameterKeys == {"name", "in", "description", "required", "allowEmptyValue"}

\* A parameter the flattening applies to: not in body, with a non-empty mapping
\* as schema
IsFlattened(parameter) ==
  /\ Get(parameter[2], "in") # Str("body")
  /\ IsDict(Get(parameter[2], "schema"))
  /\ Truthy(Get(parameter[2], "schema"))

\* Every key of a flattened mapping is allow-listed, x- prefixed, or `items`
\* holding a flattened mapping in turn
RECURSIVE FlatKeysOnly(_)
FlatKeysOnly(fields) ==
  \A i \in 1..Len(fields[2]) :
    \/ fields[2][i][1] \in AllowList
    \/ IsExt(fields[2][i][1])
    \/ fields[2][i][1] = "items" /\ IsDict(fields[2][i][2]) /\ FlatKeysOnly(fields[2][i][2])

\* No schema key, and no key but the copied ones, the allow-list, x- keys and
\* the items of an array schema
ResultKeysFlat(parameter, result) ==
  LET schema == convert_schema(Get(parameter[2], "schema"))
  IN /\ ~HasKey(result[2], "schema")
     /\ HasKey(result[2], "items") <=> HasArrayItems(schema)
     /\ HasKey(result[2], "items") => FlatKeysOnly(Get(result[2], "items"))
     /\ \A key \in KeySet(result[2]) :
          key \in CopiedParameterKeys \cup AllowList \cup {"items"} \/ IsExt(key)

\* C9 as stated: for a parameter not in body with a non-empty mapping schema,
\* the result has no schema key, every allow-listed key of the transformed
\* schema appears at the top level with the schema's value, and every key of
\* the result is a copied key, an allow-list key, items or an x- key.
C9_FlattenedWithSchemaValues ==
  (pc = "done_parameter" /\ ~IsRaise(out) /\ IsFlattened(inp)) =>
    /\ ResultKeysFlat(inp, out)
    /\ LET schema == convert_schema(Get(inp[2], "schema"))
       IN \A key \in AllowList \cap KeySet(schema[2]) :
            Get(out[2], key) = Get(schema[2], key)

\* C9 amended: as stated, except that an allow-listed key of the transformed
\* schema appears with the schema's value only when nothing written later
\* replaces it: collectionFormat takes the style's value when style is form,
\* spaceDelimited or pipeDelimited, and an x- key the parameter itself carries
\* takes the parameter's value.
C9_FlattenedUnlessOverridden ==
  (pc = "done_parameter" /\ ~IsRaise(out) /\ IsFlattened(inp)) =>
    /\ ResultKeysFlat(inp, out)
    /\ LET schema == convert_schema(Get(inp[2], "schema"))
           format == TableFormat(Get(inp[2], "style"), Get(inp[2], "explode"))
       IN \A key \in AllowList \cap KeySet(schema[2]) :
            Get(out[2], key) =
              IF IsExt(key) /\ HasKey(inp[2], key) THEN Get(inp[2], key)
              ELSE IF key = "collectionFormat" /\ format # "" THEN Str(format)
              ELSE Get(schema[2], key)

\* End-to-end scenario 1: the limit parameter, flattened
C9_Witness ==
  /\ pc = "done_parameter"
  /\ inp = Dict(<< <<"name", Str("limit")>>, <<"in", Str("query")>>,
                   <<"schema", Dict(<< <<"type", Str("integer")>>,
                                       <<"maximum", Num(100)>> >>)>> >>)
  /\ out = Dict(<< <<"name", Str("limit")>>, <<"in", Str("query")>>,
                   <<"type", Str("integer")>>, <<"maximum", Num(100)>> >>)

(***************************************************************************)
(* convert_request_body, convert_header, convert_responses                 *)
(* A returned Python tuple is a List value.                                *)
(***************************************************************************)
\* The entries of an `examples` mapping, each replaced by its `value` when it
\* is a mapping that has one
RECURSIVE UnwrapExamples(_, _)
UnwrapExamples(extracted, pairs) ==
  IF pairs = <<>> THEN extracted
  ELSE LET payload == pairs[1][2]
           value == IF IsDict(payload) /\ HasKey(payload[2], "value")
                    THEN Get(payload[2], "value") ELSE payload
       IN UnwrapExamples(Put(extracted, pairs[1][1], value), Tail(pairs))

\* A variant that takes the last-declared media type of a content mapping
LastMedia(content) == content[2][Len(content[2])]

\* next(iter(content.items())): the first-declared media type and its object
FirstMedia(content) == content[2][1]

\* The body parameter built from the representative media object
body_parameter(request_body, media_obj) ==
  LET schema == Get(media_obj[2], "schema")
      example == Get(media_obj[2], "example")
      examples == Get(media_obj[2], "examples")
      extracted == IF IsDict(examples) THEN UnwrapExamples(<<>>, examples[2]) ELSE <<>>
      p1 == << <<"name", Str("body")>>, <<"in", Str("body")>> >>
      p2 == PutIf(Truthy(Get(request_body, "description")),
                  p1, "description", Get(request_body, "description"))
      p3 == Put(p2, "required", GetOr(request_body, "required", Bool(FALSE)))
      Finish(converted) ==
        IF IsRaise(converted) THEN Raise
        ELSE LET p4 == PutIf(Truthy(schema), p3, "schema", converted)
                 p5 == PutIf(example # None, p4, "x-example", example)
                 p6 == PutIf(extracted # <<>>, p5, "x-examples", Dict(extracted))
             IN Dict(CopyExtensions(p6, request_body))
  IN Finish(IF Truthy(schema) THEN convert_schema(schema) ELSE None)

\* Returns List(<<body_param, List(consumes)>>)
convert_request_body(request_body) ==
  LET content == GetOr(request_body[2], "content", EmptyDict)
  IN IF ~Truthy(content) THEN List(<<EmptyDict, List(<<>>)>>)
     ELSE IF ~IsDict(content) \/ ~IsDict(FirstMedia(content)[2]) THEN Raise
     ELSE LET Pack(body_param) ==
                IF IsRaise(body_param) THEN Raise
                ELSE List(<<body_param, List(<<Str(FirstMedia(content)[1])>>)>>)
          IN Pack(body_parameter(request_body[2], FirstMedia(content)[2]))

convert_header(header) ==
  IF ~IsDict(header) THEN Raise
  ELSE LET schema == Get(header[2], "schema")
           h1 == IF HasKey(header[2], "description")
                 THEN << <<"description", Get(header[2], "description")>> >> ELSE <<>>
           Finish(fields) ==
             IF IsRaise(fields) THEN Raise
             ELSE Dict(CopyExtensions(Update(h1, fields[2]), header[2]))
       IN Finish(IF Truthy(schema) THEN FlattenConverted(convert_schema(schema))
                 ELSE EmptyDict)

\* header_map[name] = convert_header(header) for each header
RECURSIVE convert_headers(_, _)
convert_headers(header_map, pairs) ==
  IF pairs = <<>> THEN Dict(header_map)
  ELSE LET Store(header) ==
             IF IsRaise(header) THEN Raise
             ELSE convert_headers(Put(header_map, pairs[1][1], header), Tail(pairs))
       IN Store(convert_header(pairs[1][2]))

\* dest[media_type] = payload value, for every entry of `examples` in turn
RECURSIVE CollapseExamples(_, _, _)
CollapseExamples(dest, media_type, pairs) ==
  IF pairs = <<>> THEN dest
  ELSE LET payload == pairs[1][2]
           value == IF IsDict(payload) /\ HasKey(payload[2], "value")
                    THEN Get(payload[2], "value") ELSE payload
       IN CollapseExamples(Put(dest, media_type, value), media_type, Tail(pairs))

\* The schema of a response with content: {type: file} for application/pdf
response_schema(new_response, media_type, media_obj) ==
  LET schema == Get(media_obj, "schema")
  IN IF media_type = "application/pdf"
     THEN Dict(Put(new_response, "schema", Dict(<< <<"type", Str("file")>> >>)))
     ELSE IF Truthy(schema)
          THEN PutOrRaise(new_response, "schema", convert_schema(schema))
          ELSE Dict(new_response)

\* The `examples` of a response with content
response_examples(new_response, media_type, media_obj) ==
  LET example == Get(media_obj, "example")
      examples == Get(media_obj, "examples")
      r1 == IF example # None
            THEN Put(new_response, "examples", Dict(<< <<media_type, example>> >>))
            ELSE new_response
  IN IF IsDict(examples)
     THEN LET r2 == SetDefault(r1, "examples", EmptyDict)
          IN Put(r2, "examples",
                 Dict(CollapseExamples(Get(r2, "examples")[2], media_type, examples[2])))
     ELSE r1

\* The part of one response that follows its headers: schema and examples of
\* the first media type, then the x- keys
response_content(new_response, response, content) ==
  IF ~Truthy(content) THEN Dict(CopyExtensions(new_response, response))
  ELSE IF ~IsDict(content) \/ ~IsDict(FirstMedia(content)[2]) THEN Raise
  ELSE LET media_type == FirstMedia(content)[1]
           media_obj == FirstMedia(content)[2][2]
           WithSchema(r3) ==
             IF IsRaise(r3) THEN Raise
             ELSE Dict(CopyExtensions(response_examples(r3[2], media_type, media_obj),
                                      response))
       IN WithSchema(response_schema(new_response, media_type, media_obj))

\* One response of convert_responses
convert_response(response) ==
  IF ~IsDict(response) THEN Raise
  ELSE LET headers == Get(response[2], "headers")
           r1 == << <<"description", GetOr(response[2], "description", Str(""))>> >>
           WithHeaders(header_map) ==
             IF IsRaise(header_map) THEN Raise
             ELSE response_content(
                    PutIf(Truthy(header_map), r1, "headers", header_map),
                    response[2], GetOr(response[2], "content", EmptyDict))
       IN WithHeaders(IF ~Truthy(headers) THEN EmptyDict
                      ELSE IF ~IsDict(headers) THEN Raise
                      ELSE convert_headers(<<>>, headers[2]))

\* The media type a response appends to `produces`, <<>> when it has no content
response_produces(response) ==
  LET content == GetOr(response[2], "content", EmptyDict)
  IN IF Truthy(content) THEN <<Str(FirstMedia(content)[1])>> ELSE <<>>

\* The loop of convert_responses over responses.items()
RECURSIVE convert_responses_items(_, _, _)
convert_responses_items(converted_responses, produces, pairs) ==
  IF pairs = <<>> THEN List(<<Dict(converted_responses), List(produces)>>)
  ELSE LET Store(new_response) ==
             IF IsRaise(new_response) THEN Raise
             ELSE convert_responses_items(
                    Put(converted_responses, pairs[1][1], new_response),
                    produces \o response_produces(pairs[1][2]),
                    Tail(pairs))
       IN Store(convert_response(pairs[1][2]))

\* Returns List(<<converted_responses, List(produces)>>)
convert_responses(responses) ==
  IF ~IsDict(responses) THEN Raise
  ELSE convert_responses_items(<<>>, <<>>, responses[2])

(***************************************************************************)
(* sorted(dict.fromkeys(...)) on lists of str                              *)
(***************************************************************************)
\* The characters of media type names, in code-point order
Ascii ==
  "*+-./0123456789;=ABCDEFGHIJKLMNOPQRSTUVWXYZ_abcdefghijklmnopqrstuvwxyz"

\* The rank of a one-character string in code-point order
CharRank(c) == CHOOSE i \in 1..Len(Ascii) : SubSeq(Ascii, i, i) = c

\* a < b on str: at the first position where they differ a has the smaller
\* character, or a is a proper prefix of b
StrLess(a, b) ==
  \/ Len(a) < Len(b) /\ SubSeq(b, 1, Len(a)) = a
  \/ \E i \in 1..Len(a) :
       /\ i <= Len(b)
       /\ SubSeq(a, 1, i - 1) = SubSeq(b, 1, i - 1)
       /\ CharRank(SubSeq(a, i, i)) < CharRank(SubSeq(b, i, i))

\* list(dict.fromkeys(items)): the first occurrence of each element, in order
DedupeKeepFirst(items) ==
  LET firsts == {i \in 1..Len(items) : \A j \in 1..(i - 1) : items[j] # items[i]}
      Nth(n) == CHOOSE i \in firsts : Cardinality({j \in firsts : j <= i}) = n
  IN [n \in 1..Cardinality(firsts) |-> items[Nth(n)]]

\* A variant that keeps repeated elements
KeepAll(items) == items

\* dict.fromkeys(items)
Dedupe(items) == DedupeKeepFirst(items)

\* sorted(items) for a list of Str values: the element at place n is the one
\* with n - 1 elements before it (ties by position: the sort is stable)
Sorted(items) ==
  LET Before(i, j) ==
        \/ StrLess(items[i][2], items[j][2])
        \/ items[i][2] = items[j][2] /\ i < j
      Place(n) ==
        CHOOSE i \in 1..Len(items) :
          Cardinality({j \in 1..Len(items) : Before(j, i)}) = n - 1
  IN [n \in 1..Len(items) |-> items[Place(n)]]

\* sorted(dict.fromkeys(media_types))
SortedUnique(media_types) == Sorted(Dedupe(media_types))

(***************************************************************************)
(* convert_operation                                                       *)
(***************************************************************************)
\* for key in ("tags", ..., "externalDocs"): copy.deepcopy of the present ones
CopyOperationFields(operation) ==
  LET keys == <<"tags", "summary", "description", "operationId", "deprecated",
                "security", "externalDocs">>
      present == SelectSeq(keys, LAMBDA key : HasKey(operation, key))
  IN [i \in 1..Len(present) |-> <<present[i], Get(operation, present[i])>>]

\* [convert_parameter(p) for p in parameters]
RECURSIVE convert_parameters(_)
convert_parameters(parameters) ==
  IF parameters = <<>> THEN List(<<>>)
  ELSE LET Cons(first, rest) ==
             IF IsRaise(first) \/ IsRaise(rest) THEN Raise
             ELSE List(<<first>> \o rest[2])
       IN Cons(convert_parameter(Head(parameters)), convert_parameters(Tail(parameters)))

\* The last loop of convert_operation: x- keys, callbacks and servers, in the
\* order the operation declares them
RECURSIVE CopyOperationExtras(_, _)
CopyOperationExtras(converted, pairs) ==
  IF pairs = <<>> THEN converted
  ELSE LET key == pairs[1][1]
           c1 == PutIf(IsExt(key), converted, key, pairs[1][2])
           c2 == PutIf(key = "callbacks", c1, "x-callbacks", pairs[1][2])
           c3 == PutIf(key = "servers", c2, "x-servers", pairs[1][2])
       IN CopyOperationExtras(c3, Tail(pairs))

\* Returns List(<<converted_operation, List(consumes), List(produces)>>)
convert_operation(operation) ==
  IF ~IsDict(operation) THEN Raise
  ELSE
  LET op == operation[2]
      declared == GetOr(op, "parameters", List(<<>>))
      request_body == Get(op, "requestBody")
      Build(converted, body, responses) ==
        IF IsRaise(converted) \/ IsRaise(body) \/ IsRaise(responses) THEN Raise
        ELSE
        LET body_param == body[2][1]
            consumes == body[2][2][2]
            produces == responses[2][2][2]
            parameters == converted[2] \o
                          (IF Truthy(body_param) THEN <<body_param>> ELSE <<>>)
            o1 == CopyOperationFields(op)
            o2 == PutIf(parameters # <<>>, o1, "parameters", List(parameters))
            o3 == Put(o2, "responses", responses[2][1])
            o4 == PutIf(consumes # <<>>, o3, "consumes", List(SortedUnique(consumes)))
            o5 == PutIf(produces # <<>>, o4, "produces", List(SortedUnique(produces)))
        IN List(<<Dict(CopyOperationExtras(o5, op)), List(consumes), List(produces)>>)
  IN Build(IF IsList(declared) THEN convert_parameters(declared[2]) ELSE Raise,
           IF IsDict(request_body) THEN convert_request_body(request_body)
           ELSE List(<<EmptyDict, List(<<>>)>>),
           convert_responses(GetOr(op, "responses", EmptyDict)))

(***************************************************************************)
(* convert_path_item                                                       *)
(***************************************************************************)
\* for method in ("get", ..., "patch"): the converted operations, in that order
RECURSIVE convert_methods(_, _, _)
convert_methods(converted_path, path_item, methods) ==
  IF methods = <<>> THEN Dict(converted_path)
  ELSE IF ~HasKey(path_item, methods[1])
       THEN convert_methods(converted_path, path_item, Tail(methods))
       ELSE LET Store(converted) ==
                  IF IsRaise(converted) THEN Raise
                  ELSE convert_methods(Put(converted_path, methods[1], converted[2][1]),
                                       path_item, Tail(methods))
            IN Store(convert_operation(Get(path_item, methods[1])))

\* The last loop of convert_path_item: x- keys and servers
RECURSIVE CopyPathExtras(_, _)
CopyPathExtras(converted, pairs) ==
  IF pairs = <<>> THEN converted
  ELSE LET key == pairs[1][1]
           c1 == PutIf(IsExt(key), converted, key, pairs[1][2])
           c2 == PutIf(key = "servers", c1, "x-servers", pairs[1][2])
       IN CopyPathExtras(c2, Tail(pairs))

convert_path_item(path_item) ==
  IF ~IsDict(path_item) THEN Raise
  ELSE LET declared == Get(path_item[2], "parameters")
           Finish(converted_path) ==
             IF IsRaise(converted_path) THEN Raise
             ELSE Dict(CopyPathExtras(converted_path[2], path_item[2]))
           WithParameters(parameters) ==
             IF IsRaise(parameters) THEN Raise
             ELSE Finish(convert_methods(
                    PutIf(HasKey(path_item[2], "parameters"), <<>>, "parameters", parameters),
                    path_item[2],
                    <<"get", "put", "post", "delete", "options", "head", "patch">>))
       IN WithParameters(IF ~HasKey(path_item[2], "parameters") THEN List(<<>>)
                         ELSE IF IsList(declared) THEN convert_parameters(declared[2])
                         ELSE Raise)

(***************************************************************************)
(* parse_server                                                            *)
(***************************************************************************)
\* The first position of s that holds one of the characters of chars, 0 if none
FindAny(s, chars) ==
  LET hits == {i \in 1..Len(s) : Find(chars, SubSeq(s, i, i)) # 0}
  IN IF hits = {} THEN 0 ELSE CHOOSE i \in hits : \A j \in hits : i <= j

\* The characters urlsplit accepts in a scheme; the first must be a letter
SchemeChars == "abcdefghijklmnopqrstuvwxyzABCDEFGHIJKLMNOPQRSTUVWXYZ0123456789+-."

Letters == "abcdefghijklmnopqrstuvwxyzABCDEFGHIJKLMNOPQRSTUVWXYZ"

\* urllib.parse.urlparse(url) as <<scheme, netloc, path>>, for a str url
\* without path parameters (";") and with a lower-case scheme
urlparse(url) ==
  LET colon == Find(url, ":")
      has_scheme ==
        /\ colon > 1
        /\ Find(Letters, SubSeq(url, 1, 1)) # 0
        /\ \A i \in 1..(colon - 1) : Find(SchemeChars, SubSeq(url, i, i)) # 0
      scheme == IF has_scheme THEN SubSeq(url, 1, colon - 1) ELSE ""
      rest == IF has_scheme THEN DropFirst(url, colon) ELSE url
      has_netloc == StartsWith(rest, "//")
      after == IF has_netloc THEN DropFirst(rest, 2) ELSE rest
      delim == IF has_netloc THEN FindAny(after, "/?#") ELSE 1
      netloc == IF ~has_netloc THEN ""
                ELSE IF delim = 0 THEN after ELSE SubSeq(after, 1, delim - 1)
      tail == IF ~has_netloc THEN rest
              ELSE IF delim = 0 THEN "" ELSE DropFirst(after, delim - 1)
      cut == FindAny(tail, "?#")
      path == IF cut = 0 THEN tail ELSE SubSeq(tail, 1, cut - 1)
  IN <<scheme, netloc, path>>

\* Returns List(<<Str(host), Str(base_path), List(schemes)>>)
parse_server(server) ==
  IF ~IsDict(server) \/ ~IsStr(GetOr(server[2], "url", Str("/"))) THEN Raise
  ELSE LET parsed == urlparse(GetOr(server[2], "url", Str("/"))[2])
       IN List(<< Str(parsed[2]), Str(parsed[3]),
                  List(IF parsed[1] # "" THEN <<Str(parsed[1])>> ELSE <<>>) >>)

(***************************************************************************)
(* convert_components                                                      *)
(***************************************************************************)
\* A variant that leaves the scheme as declared
KeepSecurityScheme(scheme) == scheme

\* The rewrite of one security scheme (a deep copy of the declared one)
convert_security_scheme(scheme) ==
  LET s0 == scheme
      s1 == IF Get(s0, "type") = Str("http") /\ Get(s0, "scheme") = Str("basic")
            THEN Pop(Put(s0, "type", Str("basic")), "scheme")
            ELSE IF Get(s0, "type") = Str("http") /\ Get(s0, "scheme") = Str("bearer")
            THEN LET b1 == Put(s0, "type", Str("apiKey"))
                     b2 == Put(b1, "name", GetOr(b1, "name", Str("Authorization")))
                     b3 == Put(b2, "in", GetOr(b2, "in", Str("header")))
                     b4 == Put(b3, "x-original-http-scheme", Str("bearer"))
                 IN Pop(b4, "scheme")
            ELSE s0
  IN SetDefault(s1, "x-ms-visibility", Str("important"))

\* One entry of a components section through its converter
convert_component(section, value) ==
  CASE section = "schemas" -> convert_schema(value)
    [] section = "parameters" -> convert_parameter(value)
    [] section = "responses" ->
         LET Default(converted) ==
               IF IsRaise(converted) THEN Raise
               ELSE GetOr(converted[2][1][2], "default", EmptyDict)
         IN Default(convert_responses(Dict(<< <<"default", value>> >>)))
    [] section = "securitySchemes" ->
         IF IsDict(value) THEN Dict(convert_security_scheme(value[2])) ELSE Raise

\* The entries of one section, converted in declaration order
RECURSIVE convert_section(_, _, _)
convert_section(section, converted, pairs) ==
  IF pairs = <<>> THEN Dict(converted)
  ELSE LET Store(value) ==
             IF IsRaise(value) THEN Raise
             ELSE convert_section(section, Put(converted, pairs[1][1], value), Tail(pairs))
       IN Store(convert_component(section, pairs[1][2]))

\* The sections convert_components converts, each with its output key
ComponentSections ==
  << <<"schemas", "definitions">>, <<"parameters", "parameters">>,
     <<"responses", "responses">>, <<"securitySchemes", "securityDefinitions">> >>

RECURSIVE convert_sections(_, _, _)
convert_sections(converted, components, sections) ==
  IF sections = <<>> THEN Dict(converted)
  ELSE LET declared == Get(components, sections[1][1])
       IN IF ~Truthy(declared)
          THEN convert_sections(converted, components, Tail(sections))
          ELSE IF ~IsDict(declared) THEN Raise
          ELSE LET Store(section) ==
                     IF IsRaise(section) THEN Raise
                     ELSE convert_sections(Put(converted, sections[1][2], section),
                                           components, Tail(sections))
               IN Store(convert_section(sections[1][1], <<>>, declared[2]))

convert_components(components) ==
  IF ~IsDict(components) THEN Raise
  ELSE convert_sections(<<>>, components[2], ComponentSections)

(***************************************************************************)
(* convert_openapi_to_swagger                                              *)
(***************************************************************************)
\* x if it is truthy, else the default: the Python `x or default`
OrElse(x, default) == IF Truthy(x) THEN x ELSE default

\* host, basePath and schemes from the first server
server_fields(swagger, servers) ==
  IF ~Truthy(servers) THEN Dict(swagger)
  ELSE IF ~IsList(servers) THEN Raise
  ELSE LET Store(parsed) ==
             IF IsRaise(parsed) THEN Raise
             ELSE LET host == parsed[2][1]
                      base_path == parsed[2][2]
                      schemes == parsed[2][3]
                      s1 == PutIf(Truthy(host), swagger, "host", host)
                      s2 == PutIf(Truthy(base_path) /\ base_path # Str("/"),
                                  s1, "basePath", base_path)
                      s3 == PutIf(Truthy(schemes), s2, "schemes", schemes)
                  IN Dict(s3)
       IN Store(parse_server(servers[2][1]))

\* if openapi_spec.get(key): swagger[key] = copy.deepcopy(openapi_spec[key])
RECURSIVE CopyTruthy(_, _, _)
CopyTruthy(swagger, openapi_spec, keys) ==
  IF keys = <<>> THEN swagger
  ELSE CopyTruthy(
         IF Truthy(Get(openapi_spec, keys[1]))
         THEN Put(swagger, keys[1], Get(openapi_spec, keys[1])) ELSE swagger,
         openapi_spec, Tail(keys))

\* (path, convert_path_item(path_item)) for every path
RECURSIVE convert_paths(_, _)
convert_paths(converted, pairs) ==
  IF pairs = <<>> THEN Dict(converted)
  ELSE LET Store(path_item) ==
             IF IsRaise(path_item) THEN Raise
             ELSE convert_paths(Put(converted, pairs[1][1], path_item), Tail(pairs))
       IN Store(convert_path_item(pairs[1][2]))

convert_openapi_to_swagger(openapi_spec) ==
  IF ~IsDict(openapi_spec) THEN Raise
  ELSE
  LET spec == openapi_spec[2]
      s1 == << <<"swagger", Str("2.0")>>,
               <<"info", GetOr(spec, "info", EmptyDict)>>,
               <<"consumes", List(<<Str("application/json")>>)>>,
               <<"produces", List(<<Str("application/json")>>)>>,
               <<"x-ms-connector-metadata",
                 Dict(<< <<"categories", List(<<Str("eSignature")>>)>>,
                         <<"visibility", Str("important")>> >>)>> >>
      Build(s2, components, paths) ==
        IF IsRaise(s2) \/ IsRaise(components) \/ IsRaise(paths) THEN Raise
        ELSE LET s3 == CopyTruthy(s2[2], spec, <<"tags", "externalDocs", "security">>)
                 s4 == Update(s3, components[2])
                 s5 == Put(s4, "paths", paths)
             IN Dict(CopyExtensions(s5, spec))
  IN Build(server_fields(s1, OrElse(Get(spec, "servers"), List(<<>>))),
           convert_components(OrElse(Get(spec, "components"), EmptyDict)),
           IF IsDict(GetOr(spec, "paths", EmptyDict))
           THEN convert_paths(<<>>, GetOr(spec, "paths", EmptyDict)[2])
           ELSE Raise)

(***************************************************************************)
(* Operations                                                              *)
(***************************************************************************)
MaxResponses == 2

JsonWidget ==
  <<"application/json",
    Dict(<< <<"schema", Dict(<< <<"$ref", Str("#/components/schemas/Widget")>> >>)>> >>)>>

XmlText ==
  <<"application/xml", Dict(<< <<"schema", Dict(<< <<"type", Str("string")>> >>)>> >>)>>

RequestBodies ==
  { Absent,
    Dict(<< <<"content", EmptyDict>> >>),
    Dict(<< <<"content", Dict(<<JsonWidget>>)>>, <<"required", Bool(TRUE)>> >>),
    Dict(<< <<"description", Str("a widget")>>, <<"content", Dict(<<XmlText, JsonWidget>>)>>,
            <<"x-body-name", Str("widget")>> >>),
    Dict(<< <<"content", Dict(<< <<"application/json", Dict(<< <<"schema", EmptyDict>> >>)>> >>)>> >>),
    Dict(<< <<"content", Dict(<< <<"text/plain",
              Dict(<< <<"example", Str("hi")>>,
                      <<"examples", Dict(<< <<"one", Dict(<< <<"value", Num(1)>> >>)>>,
                                            <<"two", Num(2)>> >>)>> >>)>> >>)>> >>),
    Dict(<< <<"$ref", Str("#/components/requestBodies/WidgetBody")>> >>) }

ResponseShapes ==
  { Dict(<< <<"description", Str("none")>> >>),
    Dict(<< <<"description", Str("a widget")>>, <<"content", Dict(<<JsonWidget>>)>>,
            <<"x-kind", Str("widget")>> >>),
    Dict(<< <<"content", Dict(<< <<"application/pdf",
              Dict(<< <<"schema", Dict(<< <<"type", Str("string")>> >>)>> >>)>> >>)>> >>),
    Dict(<< <<"content", Dict(<<XmlText, JsonWidget>>)>>,
            <<"headers", Dict(<< <<"X-Rate",
              Dict(<< <<"schema", Dict(<< <<"type", Str("integer")>> >>)>> >>)>> >>)>> >>) }

Statuses == <<"200", "404", "default">>

\* The status-keyed mappings of at most n responses with distinct statuses, in
\* every declaration order
RECURSIVE ResponseMaps(_)
ResponseMaps(n) ==
  IF n = 0 THEN {<<>>}
  ELSE ResponseMaps(n - 1) \cup
       { Append(m, <<Statuses[i], r>>) :
           m \in {x \in ResponseMaps(n - 1) : Len(x) = n - 1},
           i \in 1..Len(Statuses), r \in ResponseShapes }

DistinctKeys(pairs) == Cardinality(KeySet(pairs)) = Len(pairs)

OperationParameters ==
  { Absent,
    List(<< Dict(<< <<"name", Str("limit")>>, <<"in", Str("query")>>,
                    <<"schema", Dict(<< <<"type", Str("integer")>>,
                                        <<"maximum", Num(100)>> >>)>> >>) >>) }

OperationExtras ==
  { <<>>,
    << <<"x-callbacks", Str("mine")>>, <<"callbacks", Dict(<< <<"onEvent", Str("cb")>> >>)>> >>,
    << <<"servers", List(<<Str("s")>>)>>, <<"x-b", Num(1)>>, <<"x-a", Num(2)>> >>,
    << <<"operationId", Str("getWidget")>>, <<"deprecated", Bool(TRUE)>>,
       <<"tags", List(<<Str("widgets")>>)>> >> }

Operation(parameters, request_body, responses, extras) ==
  Dict(Field("parameters", parameters) \o Field("requestBody", request_body)
       \o << <<"responses", Dict(responses)>> >> \o extras)

\* Every parameter list, request body and extra key with one response, and
\* every response mapping with and without a request body
OperationInputs ==
  { Operation(parameters, request_body, responses, extras) :
      parameters \in OperationParameters,
      request_body \in RequestBodies,
      responses \in {m \in ResponseMaps(1) : Len(m) = 1},
      extras \in OperationExtras }
  \cup
  { Operation(Absent, request_body, responses, <<>>) :
      request_body \in {Absent, Dict(<< <<"content", Dict(<<JsonWidget>>)>>,
                                         <<"required", Bool(TRUE)>> >>)},
      responses \in {m \in ResponseMaps(MaxResponses) : DistinctKeys(m)} }

InitOperation ==
  /\ pc = "operation"
  /\ inp \in OperationInputs
  /\ out = None
  /\ order \in FieldOrders

RunConvertOperation ==
  /\ pc = "operation"
  /\ pc' = "done_operation"
  /\ out' = convert_operation(inp)
  /\ UNCHANGED <<inp, order>>

SpecOperation == InitOperation /\ [][RunConvertOperation]_vars

\* The converted operation, first element of the returned tuple
ConvertedOperation == out[2][1][2]

OperationDone == pc = "done_operation" /\ ~IsRaise(out)

\* The requestBody's content when it is a non-empty mapping, else EmptyDict
BodyContent(operation) ==
  LET request_body == Get(operation[2], "requestBody")
  IN IF IsDict(request_body) /\ Truthy(GetOr(request_body[2], "content", EmptyDict))
     THEN Get(request_body[2], "content") ELSE EmptyDict

\* The parameters the operation declares, converted
DeclaredParameters(operation) ==
  convert_parameters(GetOr(operation[2], "parameters", List(<<>>))[2])[2]

\* The output parameters are the declared ones followed by one body parameter
\* named body, with the requestBody's required flag
BodyParameterAppended(operation, converted) ==
  LET parameters == Get(converted, "parameters")[2]
      last == parameters[Len(parameters)][2]
  IN /\ HasKey(converted, "parameters")
     /\ Len(parameters) = Len(DeclaredParameters(operation)) + 1
     /\ SubSeq(parameters, 1, Len(parameters) - 1) = DeclaredParameters(operation)
     /\ Get(last, "name") = Str("body")
     /\ Get(last, "in") = Str("body")
     /\ Get(last, "required") =
          GetOr(Get(operation[2], "requestBody")[2], "required", Bool(FALSE))

\* consumes holds the first-declared media type and nothing else
ConsumesFirstMedia(operation, converted) ==
  Get(converted, "consumes") = List(<<Str(BodyContent(operation)[2][1][1])>>)

\* Without content: the declared parameters only, and no consumes key
NoBodyParameter(operation, converted) ==
  /\ ~HasKey(converted, "consumes")
  /\ IF DeclaredParameters(operation) = <<>> THEN ~HasKey(converted, "parameters")
     ELSE Get(converted, "parameters") = List(DeclaredParameters(operation))

ProducedTypes(operation) ==
  LET responses == GetOr(operation[2], "responses", EmptyDict)[2]
  IN { Str(Get(responses[i][2][2], "content")[2][1][1]) :
         i \in {j \in 1..Len(responses) :
                  Truthy(GetOr(responses[j][2][2], "content", EmptyDict))} }

\* Non-empty, ascending in code-point order, hence without repetition
StrictlyAscending(list) ==
  /\ Len(list[2]) > 0
  /\ \A i \in 1..(Len(list[2]) - 1) : StrLess(list[2][i][2], list[2][i + 1][2])

Elements(list) == {list[2][i] : i \in 1..Len(list[2])}

\* C8: consumes and produces in the output of convert_operation, whenever
\* present, are non-empty, sorted ascending and free of duplicates; produces
\* holds exactly the first-declared media types of the responses that have
\* non-empty content, whatever the order of the responses, and is omitted when
\* there is none.
C8_MediaListsSortedUnique ==
  OperationDone =>
    /\ \A key \in {"consumes", "produces"} :
         HasKey(ConvertedOperation, key) => StrictlyAscending(Get(ConvertedOperation, key))
    /\ HasKey(ConvertedOperation, "produces") <=> ProducedTypes(inp) # {}
    /\ HasKey(ConvertedOperation, "produces") =>
         Elements(Get(ConvertedOperation, "produces")) = ProducedTypes(inp)

\* Responses declared pdf first, then json: produces is sorted
C8_Witness ==
  /\ pc = "done_operation"
  /\ out[2][3] = List(<<Str("application/pdf"), Str("application/json")>>)
  /\ Get(ConvertedOperation, "produces") =
       List(<<Str("application/json"), Str("application/pdf")>>)

(***************************************************************************)
(* Components                                                              *)
(***************************************************************************)
SecuritySchemes ==
  { Dict(<< <<"type", Str(type)>> >> \o Field("scheme", scheme) \o Field("name", name)
         \o Field("in", loc) \o Field("x-ms-visibility", visibility)
         \o Field("x-original-http-scheme", original)) :
      type \in {"http", "apiKey", "oauth2"},
      scheme \in {Absent, Str("basic"), Str("bearer")},
      name \in {Absent, Str("X-Token")},
      loc \in {Absent, Str("query")},
      visibility \in {Absent, Str("advanced")},
      original \in {Absent, Str("custom")} }

WidgetSchema ==
  Dict(<< <<"type", Str("object")>>, <<"nullable", Bool(TRUE)>>,
          <<"properties", Dict(<< <<"id", Dict(<< <<"type", Str("integer")>> >>)>>,
                                  <<"owner", Dict(<< <<"$ref", Str("#/components/schemas/Owner")>> >>)>> >>)>>,
          <<"x-table", Dict(<< <<"not", Str("indexed")>> >>)>> >>)

OwnerSchema == Dict(<< <<"type", Str("string")>> >>)

LimitParameter ==
  Dict(<< <<"name", Str("limit")>>, <<"in", Str("query")>>,
          <<"schema", Dict(<< <<"type", Str("integer")>>, <<"maximum", Num(100)>> >>)>> >>)

NotFoundResponse ==
  Dict(<< <<"description", Str("not found")>>, <<"content", Dict(<<JsonWidget>>)>> >>)

WidgetBody ==
  Dict(<< <<"content", Dict(<<JsonWidget>>)>>, <<"required", Bool(TRUE)>> >>)

ComponentsInputs ==
  { Dict(Field("schemas", schemas) \o Field("parameters", parameters)
         \o Field("responses", responses) \o Field("requestBodies", bodies)
         \o << <<"securitySchemes", Dict(<< <<"auth", scheme>> >>)>> >>) :
      schemas \in {Absent, EmptyDict,
                   Dict(<< <<"Widget", WidgetSchema>>, <<"Owner", OwnerSchema>> >>)},
      parameters \in {Absent, Dict(<< <<"Limit", LimitParameter>> >>)},
      responses \in {Absent, Dict(<< <<"NotFound", NotFoundResponse>> >>)},
      bodies \in {Absent, Dict(<< <<"WidgetBody", WidgetBody>> >>)},
      scheme \in SecuritySchemes }

InitComponents ==
  /\ pc = "components"
  /\ inp \in ComponentsInputs
  /\ out = None
  /\ order \in FieldOrders

\* security schemes are deep-copied before they are rewritten: inp is unchanged
RunConvertComponents ==
  /\ pc = "components"
  /\ pc' = "done_components"
  /\ out' = convert_components(inp)
  /\ UNCHANGED <<inp, order>>

SpecComponents == InitComponents /\ [][RunConvertComponents]_vars

\* The bearer rewrite of one declared scheme
BearerRewritten(declared, converted) ==
  /\ Get(converted, "type") = Str("apiKey")
  /\ ~HasKey(converted, "scheme")
  /\ Get(converted, "name") = GetOr(declared, "name", Str("Authorization"))
  /\ Get(converted, "in") = GetOr(declared, "in", Str("header"))
  /\ Get(converted, "x-original-http-scheme") = Str("bearer")

\* Every declared scheme has its definition: bearer rewritten, visibility set
SecuritySchemesConverted ==
  (pc = "done_components" /\ ~IsRaise(out)) =>
    LET declared == Get(inp[2], "securitySchemes")[2]
        definitions == Get(out[2], "securityDefinitions")
    IN /\ IsDict(definitions)
       /\ KeysOf(definitions[2]) = KeysOf(declared)
       /\ \A i \in 1..Len(declared) :
            LET scheme == declared[i][2][2]
                converted == definitions[2][i][2][2]
            IN /\ (Get(scheme, "type") = Str("http") /\ Get(scheme, "scheme") = Str("bearer"))
                    => BearerRewritten(scheme, converted)
               /\ Get(converted, "x-ms-visibility") =
                    GetOr(scheme, "x-ms-visibility", Str("important"))

\* C10: every entry of components.securitySchemes with type http and scheme
\* bearer becomes, under the same name in securityDefinitions, type apiKey
\* without scheme key, with name defaulting to Authorization, in defaulting to
\* header and x-original-http-scheme bearer; every converted scheme has the
\* declared x-ms-visibility, or important when none is declared; and the
\* conversion leaves the input scheme objects as they were.
C10_BearerBecomesApiKey ==
  []SecuritySchemesConverted /\ [][inp' = inp]_vars

\* End-to-end scenario 3
C10_Witness ==
  /\ pc = "done_components"
  /\ Get(inp[2], "securitySchemes") =
       Dict(<< <<"auth", Dict(<< <<"type", Str("http")>>, <<"scheme", Str("bearer")>> >>)>> >>)
  /\ Get(out[2], "securityDefinitions") =
       Dict(<< <<"auth", Dict(<< <<"type", Str("apiKey")>>,
                                 <<"name", Str("Authorization")>>,
                                 <<"in", Str("header")>>,
                                 <<"x-original-http-scheme", Str("bearer")>>,
                                 <<"x-ms-visibility", Str("important")>> >>)>> >>)

(***************************************************************************)
(* Documents                                                               *)
(***************************************************************************)
Servers ==
  { Absent,
    List(<< Dict(<< <<"url", Str("https://api.example.com/v1")>> >>),
            Dict(<< <<"url", Str("https://backup.example.com/v1")>> >>) >>),
    List(<< Dict(<< <<"url", Str("/v1?draft#top")>> >>) >>),
    List(<< Dict(<< <<"url", Str("http://localhost:8080")>> >>) >>),
    List(<< Dict(<< <<"description", Str("default")>> >>) >>) }

DocumentComponents ==
  { Absent,
    Dict(<< <<"schemas", Dict(<< <<"Widget", WidgetSchema>>, <<"Owner", OwnerSchema>> >>)>>,
            <<"parameters", Dict(<< <<"Limit", LimitParameter>> >>)>>,
            <<"responses", Dict(<< <<"NotFound", NotFoundResponse>> >>)>>,
            <<"requestBodies", Dict(<< <<"WidgetBody", WidgetBody>> >>)>>,
            <<"securitySchemes", Dict(<< <<"auth",
                Dict(<< <<"type", Str("http")>>, <<"scheme", Str("bearer")>> >>)>> >>)>> >>) }

RefTo(target) == Dict(<< <<"$ref", Str(target)>> >>)

DocumentParameters ==
  { Absent, List(<<LimitParameter>>), List(<<RefTo("#/components/parameters/Limit")>>) }

DocumentBodies ==
  { Absent, WidgetBody, RefTo("#/components/requestBodies/WidgetBody") }

DocumentResponses ==
  { << <<"200", NotFoundResponse>> >>,
    << <<"200", Dict(<< <<"description", Str("ok")>>, <<"x-kind", Str("plain")>> >>)>>,
       <<"404", RefTo("#/components/responses/NotFound")>> >> }

DocumentExtras ==
  { <<>>,
    << <<"x-callbacks", Str("mine")>>, <<"callbacks", Dict(<< <<"onEvent", Str("cb")>> >>)>> >>,
    << <<"security", List(<<Dict(<< <<"auth", List(<<>>)>> >>)>>)>>, <<"x-a", Num(1)>> >> }

PathItems ==
  { Dict(Field("parameters", shared) \o << <<method, operation>> >> \o path_extras) :
      shared \in {Absent, List(<<RefTo("#/components/parameters/Limit")>>)},
      method \in {"get", "post"},
      path_extras \in {<<>>, << <<"x-path", Str("widgets")>>, <<"servers", List(<<>>)>> >>},
      operation \in
        { Operation(parameters, request_body, responses, extras) :
            parameters \in DocumentParameters, request_body \in DocumentBodies,
            responses \in DocumentResponses, extras \in DocumentExtras } }

RootExtensions ==
  { <<>>,
    << <<"x-audience", Str("public")>>, <<"x-ms-connector-metadata", Str("custom")>> >> }

DocumentInputs ==
  { Dict(<< <<"openapi", Str("3.0.0")>>,
            <<"info", Dict(<< <<"title", Str("Widgets")>> >>)>> >>
         \o Field("servers", servers) \o << <<"paths", Dict(<< <<"/widgets", path_item>> >>)>> >>
         \o Field("components", components) \o root_extras) :
      servers \in {Absent}, path_item \in PathItems,
      components \in DocumentComponents, root_extras \in RootExtensions }
  \cup
  { Dict(<< <<"openapi", Str("3.0.0")>> >> \o Field("servers", servers)
         \o Field("components", components)) :
      servers \in Servers, components \in DocumentComponents }

InitDocument ==
  /\ pc = "document"
  /\ inp \in DocumentInputs
  /\ out = None
  /\ order \in FieldOrders

RunConvertDocument ==
  /\ pc = "document"
  /\ pc' = "done_document"
  /\ out' = convert_openapi_to_swagger(inp)
  /\ UNCHANGED <<inp, order>>

SpecDocument == InitDocument /\ [][RunConvertDocument]_vars

DocumentDone == pc = "done_document" /\ ~IsRaise(out)

\* Every string found under a `$ref` key, at any depth of the tree
RECURSIVE RefsOf(_)
RefsOf(x) ==
  CASE IsDict(x) ->
         UNION { (IF x[2][i][1] = "$ref" /\ IsStr(x[2][i][2])
                  THEN {x[2][i][2][2]} ELSE {}) \cup RefsOf(x[2][i][2]) :
                 i \in 1..Len(x[2]) }
    [] IsList(x) -> UNION { RefsOf(x[2][i]) : i \in 1..Len(x[2]) }
    [] OTHER -> {}

ReferableSections ==
  {"schemas", "parameters", "responses", "requestBodies", "securitySchemes"}

\* The entries <<section, name>> of the document's components
ComponentEntries(document) ==
  LET components == Get(document[2], "components")
  IN IF ~IsDict(components) THEN {}
     ELSE { entry \in
              UNION { {<<section, name>> :
                         name \in IF IsDict(Get(components[2], section))
                                  THEN KeySet(Get(components[2], section)[2]) ELSE {}} :
                      section \in ReferableSections } : TRUE }

\* The component entries some `$ref` of the document points at
ReferencedEntries(document) ==
  { entry \in ComponentEntries(document) :
      ("#/components/" \o entry[1] \o "/" \o entry[2]) \in RefsOf(document) }

\* Some top-level section of the output holds an entry of that name, and the
\* output has a `$ref` naming that section and entry
ReferenceKept(name) ==
  \E i \in 1..Len(out[2]) :
    LET section == out[2][i] IN
      /\ IsDict(section[2])
      /\ HasKey(section[2][2], name)
      /\ ("#/" \o section[1] \o "/" \o name) \in RefsOf(out)

\* C1: every `$ref` of the input document that points at an entry of
\* components/schemas, parameters, responses, requestBodies or securitySchemes
\* is present in the output of convert_openapi_to_swagger, rewritten to name the
\* top-level output section that holds the converted entry: no such reference
\* is dropped, and every rewritten reference resolves in the output document.
C1_ReferencesKeptAndResolvable ==
  DocumentDone => \A entry \in ReferencedEntries(inp) : ReferenceKept(entry[2])

\* The x- entries of the input node are those entries of the output node, with
\* the same values and in the same relative order
ExtensionsKept(in_node, out_node) ==
  /\ IsDict(out_node)
  /\ SelectSeq(out_node[2],
               LAMBDA p : IsExt(p[1]) /\ HasKey(in_node[2], p[1]))
       = SelectSeq(in_node[2], LAMBDA p : IsExt(p[1]))

HttpMethods == {"get", "put", "post", "delete", "options", "head", "patch"}

PathItemExtensionsKept(in_item, out_item) ==
  /\ ExtensionsKept(in_item, out_item)
  /\ \A method \in HttpMethods \cap KeySet(in_item[2]) :
       ExtensionsKept(Get(in_item[2], method), Get(out_item[2], method))

\* C2: on the document root, every path item and every operation, each key of
\* the input node that starts with x- is a key of the corresponding output node
\* with the input's value (not transformed, dropped or overwritten by a derived
\* field), and the x- keys keep their relative order.
C2_ExtensionsKeptInOrder ==
  DocumentDone =>
    /\ ExtensionsKept(inp, out)
    /\ \A path \in KeySet(GetOr(inp[2], "paths", EmptyDict)[2]) :
         PathItemExtensionsKept(Get(Get(inp[2], "paths")[2], path),
                                Get(Get(out[2], "paths")[2], path))

====
